---- MODULE Spec2Model ----
(***************************************************************************)
(* Model of the Mijn PWN API client: the token authenticator PWNAuth and   *)
(* the fetch path PWNAPI.fetch_data_from_api of                            *)
(* custom_components/mijn_pwn/api.py.                                      *)
(*                                                                         *)
(* A coroutine is modelled by one action per stretch of code between two   *)
(* network calls; pc is the position of the running fetch.  The remote     *)
(* server is the environment: every answer it can give to a request is     *)
(* drawn with \E.  While serverGood is FALSE the server is arbitrary; once *)
(* it is TRUE it accepts every POST to the login endpoint, answers 200 to  *)
(* every GET that bears an access token it holds valid and 401/403 to      *)
(* every other GET.                                                        *)
(***************************************************************************)
EXTENDS Integers, Sequences, FiniteSets, TLC

VARIABLES
    access_token,   \* PWNAuth.access_token   (None or a token)
    refresh_token,  \* PWNAuth.refresh_token  (None or a token)
    pc,             \* position of the running fetch_data_from_api call
    heldAtStart,    \* is_authenticated() as evaluated on entry of the call
    log,            \* network calls / auth calls made by the current call
    outcome,        \* how the call ended: value returned or exception raised
    data,           \* the value returned by the call (a JSON body) or None
    last,           \* the most recent PWNAuth call or GET and its answer
    serverGood,     \* environment: the server has recovered for good
    validAccess,    \* environment: access tokens the recovered server accepts
    endpoint,       \* name given to the last async_get_data call, or ""
    polling,        \* a poll cycle (_async_update_data) is running
    results,        \* documents fetched so far by the running poll cycle
    published,      \* PWNDataUpdateCoordinator.data
    pollOutcome,    \* how the last poll cycle ended
    clock,          \* datetime.now(): number of poll cycles started
    requests,       \* fetches the running poll cycle has issued, in order
    domainKey,      \* DOMAIN in hass.data
    coordinators,   \* hass.data[DOMAIN]: entry id -> coordinator, or None
    platforms,      \* entries whose sensor platforms are set up
    setupOk,        \* entries set up with True and not unloaded since
    created,        \* coordinators created so far
    hostCall,       \* the last call from the host and what it returned
    invoices,       \* summarizedInvoices handed to the sensor helpers
    amount_per_month_per_year,  \* calculate_amount_per_month_per_year_as_dict
    bills_per_year, \* 'costs_per_year' of calculate_bills_per_year
    calculated      \* which helper has run on invoices

vars == <<access_token, refresh_token, pc, heldAtStart, log, outcome, data,
          last, serverGood, validAccess, endpoint, polling, results,
          published, pollOutcome, clock, requests, domainKey, coordinators,
          platforms, setupOk, created, hostCall, invoices,
          amount_per_month_per_year, bills_per_year, calculated>>

\* hass.data[DOMAIN] and the platforms behind it.
registryVars == <<domainKey, coordinators, platforms, setupOk, created,
                  hostCall>>

\* Input and results of the sensor helpers.
sensorVars == <<invoices, amount_per_month_per_year, bills_per_year,
                calculated>>

pollVars == <<polling, results, published, pollOutcome, clock, requests>>

\* State outside PWNAuth and the running fetch_data_from_api call.
callerVars == <<endpoint, pollVars, registryVars, sensorVars>>

-----------------------------------------------------------------------------
(* Bounds *)

NumTokens == 1      \* distinct token strings the server can issue
NumBodies == 3      \* distinct JSON bodies a data endpoint can return
MaxPolls  == 2      \* poll cycles the coordinator starts
NumEntries == 2     \* config entries of the integration
MaxCoordinators == 3 \* coordinators async_setup_entry creates
MaxInvoices == 2    \* invoices in the data handed to the sensor helpers
NumYears  == 2      \* calendar years the invoices are dated in

-----------------------------------------------------------------------------
(* Values *)

None   == 0                     \* Python None: token absent / no body
Tokens == 1..NumTokens
Entries == 1..NumEntries        \* config_entry.entry_id
Bodies == 1..NumBodies

\* The JSON documents told apart by the coordinator: 1 is the empty
\* document {}, 2 a document with the key relationNumber, every other one
\* a non-empty document without that key.
EmptyBody    == 1
RelationBody == 2

\* Statuses the code tells apart: 200, 401, 403 and "any other" (500).
Statuses == {200, 401, 403, 500}

\* Answers to a POST on the login endpoint.  A 200 answer carries a JSON
\* body; tokens.get('accessToken') is None when the field is missing.
\* "timeout" is asyncio.TimeoutError, "error" is aiohttp.ClientError (also
\* raised when the body of a 200 answer cannot be read as JSON).
PostResponses ==
    [kind : {"status"}, status : {200},
     accessToken : Tokens \cup {None}, refreshToken : Tokens \cup {None}]
    \cup [kind : {"status"}, status : Statuses \ {200},
          accessToken : {None}, refreshToken : {None}]
    \cup [kind : {"timeout", "error"}, status : {0},
          accessToken : {None}, refreshToken : {None}]

\* Answers to a GET on a data endpoint.
GetResponses ==
    [kind : {"status"}, status : {200}, body : Bodies]
    \cup [kind : {"status"}, status : Statuses \ {200}, body : {None}]
    \cup [kind : {"timeout", "error"}, status : {0}, body : {None}]

IsStatus(resp, s) == resp.kind = "status" /\ resp.status = s
IsUnauthorized(resp) == resp.kind = "status" /\ resp.status \in {401, 403}

\* Answers of the server to a POST on the login endpoint.
ServerPost ==
    IF serverGood
    THEN {r \in PostResponses : IsStatus(r, 200) /\ r.accessToken # None
                                /\ r.refreshToken # None}
    ELSE PostResponses

\* Answers of the server to a GET bearing the access token tok: a
\* recovered server answers 200 to a valid token and 401/403 to any other.
ServerGet(tok) ==
    IF ~serverGood THEN GetResponses
    ELSE IF tok \in validAccess
    THEN {r \in GetResponses : IsStatus(r, 200)}
    ELSE {r \in GetResponses : IsUnauthorized(r)}

\* A recovered server holds valid every access token it issues.
Issue(resp) ==
    IF serverGood /\ IsStatus(resp, 200) /\ resp.accessToken # None
    THEN validAccess \cup {resp.accessToken}
    ELSE validAccess

-----------------------------------------------------------------------------
(* PWNAuth *)

\* PWNAuth.is_authenticated: bool(self.access_token)
is_authenticated(at) == at # None

login_clears(at, rt, resp) ==
    IF IsStatus(resp, 200)
    THEN [access_token |-> resp.accessToken,
          refresh_token |-> resp.refreshToken, ret |-> "True", posts |-> 1]
    ELSE [access_token |-> None, refresh_token |-> None,
          ret |-> "False", posts |-> 1]

\* PWNAuth.login: one POST; on 200 both fields of the body are stored as
\* they are; every other answer and every exception returns False.
login(at, rt, resp) ==
    IF IsStatus(resp, 200)
    THEN [access_token |-> resp.accessToken,
          refresh_token |-> resp.refreshToken, ret |-> "True", posts |-> 1]
    ELSE [access_token |-> at, refresh_token |-> rt,
          ret |-> "False", posts |-> 1]

\* PWNAuth.refresh_tokens: returns at once without a refresh token; one
\* POST otherwise; on 200 both fields of the body are stored; 401/403,
\* other statuses, timeout and client error are logged.  Every path
\* returns None.
refresh_tokens(at, rt, resp) ==
    IF rt = None
    THEN [access_token |-> at, refresh_token |-> rt,
          ret |-> "None", posts |-> 0]
    ELSE IF IsStatus(resp, 200)
    THEN [access_token |-> resp.accessToken,
          refresh_token |-> resp.refreshToken, ret |-> "None", posts |-> 1]
    ELSE [access_token |-> at, refresh_token |-> rt,
          ret |-> "None", posts |-> 1]

logout_access_only(at, rt) == [access_token |-> None, refresh_token |-> rt]

\* PWNAuth.logout
logout(at, rt) == [access_token |-> None, refresh_token |-> None]

\* Record of one call in log and last.
\* tok is the token of the Authorization header and body the JSON body of
\* a 200 answer, both for a GET only.
Call(op, resp, posts, tok, ret) ==
    [op |-> op, kind |-> IF posts = 0 THEN "nopost" ELSE resp.kind,
     status |-> IF posts = 0 THEN 0 ELSE resp.status,
     tok |-> tok, body |-> IF op = "get" THEN resp.body ELSE None,
     ret |-> ret]

NoCall == [op |-> "none", kind |-> "nopost", status |-> 0, tok |-> None,
           body |-> None, ret |-> "None"]

\* Record of one call of async_setup_entry, async_unload_entry or
\* async_reload_entry: unloaded is the value of async_unload_platforms
\* and ret what the call returned or raised.
HostCall(op, e, unloaded, ret) ==
    [op |-> op, entry |-> e, unloaded |-> unloaded, ret |-> ret]

NoHostCall == HostCall("none", 0, FALSE, "None")

-----------------------------------------------------------------------------
(* PWNDataUpdateCoordinator: the data mapping *)

\* The mapping built by _fetch_all_data plus last_update; a key that is
\* not set holds None.  kind tells None, {} and a filled mapping apart.
Mapping(kind, r, contact, now) ==
    [kind |-> kind,
     invoices |-> r[1], user_data |-> r[2], consumption_history |-> r[3],
     contact_preferences |-> contact,
     payment_info |-> r[4], advance |-> r[5], notifications |-> r[6],
     last_update |-> now]

NoResults == <<None, None, None, None, None, None>>

\* self.data before the first refresh
NoData    == Mapping("None", NoResults, None, 0)

\* the {} returned by _fetch_all_data for incomplete data
EmptyDict == Mapping("empty", NoResults, None, 0)

-----------------------------------------------------------------------------
\* hass.data before any entry is set up.
RegistryInit ==
    /\ domainKey = FALSE
    /\ coordinators = [e \in Entries |-> None]
    /\ platforms = {}
    /\ setupOk = {}
    /\ created = 0
    /\ hostCall = NoHostCall

\* No sensor helper has run.
NotCalculated ==
    /\ amount_per_month_per_year = <<>>
    /\ bills_per_year = <<>>
    /\ calculated = "none"

ClientInit ==
    /\ access_token = None
    /\ refresh_token = None
    /\ pc = "idle"
    /\ heldAtStart = FALSE
    /\ log = <<>>
    /\ outcome = "none"
    /\ data = None
    /\ last = NoCall
    /\ serverGood = FALSE
    /\ validAccess = {}
    /\ endpoint = ""
    /\ polling = FALSE
    /\ results = <<>>
    /\ published = NoData
    /\ pollOutcome = "none"
    /\ clock = 0
    /\ requests = <<>>

Init ==
    /\ ClientInit
    /\ RegistryInit
    /\ invoices = <<>>
    /\ NotCalculated

-----------------------------------------------------------------------------
(* Calls on PWNAuth made outside a fetch *)

auth_login ==
    /\ UNCHANGED callerVars
    /\ pc = "idle"
    /\ \E resp \in ServerPost :
         LET r == login(access_token, refresh_token, resp) IN
         /\ access_token' = r.access_token
         /\ refresh_token' = r.refresh_token
         /\ last' = Call("login", resp, r.posts, None, r.ret)
         /\ validAccess' = Issue(resp)
    /\ UNCHANGED <<pc, heldAtStart, log, outcome, data, serverGood>>

auth_refresh_tokens ==
    /\ UNCHANGED callerVars
    /\ pc = "idle"
    /\ \E resp \in ServerPost :
         LET r == refresh_tokens(access_token, refresh_token, resp) IN
         /\ access_token' = r.access_token
         /\ refresh_token' = r.refresh_token
         /\ last' = Call("refresh", resp, r.posts, None, r.ret)
         /\ validAccess' = IF r.posts = 1 THEN Issue(resp) ELSE validAccess
    /\ UNCHANGED <<pc, heldAtStart, log, outcome, data, serverGood>>

auth_logout ==
    /\ UNCHANGED callerVars
    /\ pc = "idle"
    /\ LET r == logout(access_token, refresh_token) IN
         /\ access_token' = r.access_token
         /\ refresh_token' = r.refresh_token
    /\ last' = [NoCall EXCEPT !.op = "logout"]
    /\ UNCHANGED <<pc, heldAtStart, log, outcome, data, serverGood,
                   validAccess>>

-----------------------------------------------------------------------------
(* PWNAPI.fetch_data_from_api *)

first_step_get(at) == "get"

first_step_login(at) == "login"

\* "if not self.auth.is_authenticated(): await self.auth.login(...)"
first_step(at) == IF is_authenticated(at) THEN "get" ELSE "login"

\* Entry of the call up to the first network call: login when
\* is_authenticated() is false, the GET otherwise.
begin_fetch ==
    /\ pc = "idle"
    /\ heldAtStart' = is_authenticated(access_token)
    /\ pc' = first_step(access_token)
    /\ log' = <<>>
    /\ outcome' = "pending"
    /\ data' = None
    /\ UNCHANGED <<access_token, refresh_token, last, serverGood,
                   validAccess>>

\* fetch_data_from_api called with a URL, as the coordinator does.
fetch_begin ==
    /\ begin_fetch
    /\ endpoint' = ""
    /\ UNCHANGED <<pollVars, registryVars, sensorVars>>

\* Catalog names the model calls async_get_data with, and a name that is
\* not a key of API_ENDPOINTS.
EndpointNames == {"settings", "invoices_summary"}
UnknownNames  == {"bogus"}

\* The URLs of those names in API_ENDPOINTS.
API_ENDPOINTS ==
    [name \in EndpointNames |->
        IF name = "settings"
        THEN "https://mijn.pwn.nl/assets/configs/mijn-pwn-nl/settings.json"
        ELSE "https://mijn.pwn.nl/api/Invoices/summary"]

\* The body of async_get_data(endpoint): API_ENDPOINTS.get(endpoint);
\* without a URL the call logs an error and returns None, otherwise it is
\* the fetch of the URL.
get_data(name) ==
    /\ endpoint' = name
    /\ UNCHANGED <<pollVars, registryVars, sensorVars>>
    /\ IF name \in DOMAIN API_ENDPOINTS
       THEN begin_fetch
       ELSE /\ outcome' = "None"
            /\ data' = None
            /\ log' = <<>>
            /\ UNCHANGED <<access_token, refresh_token, pc,
                           heldAtStart, last, serverGood, validAccess>>

\* PWNAPI.async_get_data called with a catalog name or an unknown one.
async_get_data ==
    /\ pc = "idle"
    /\ \E name \in EndpointNames \cup UnknownNames : get_data(name)

\* PWNAPI.async_get_settings:
\* "return await self.async_get_data(API_ENDPOINTS['settings'])".
async_get_settings ==
    /\ pc = "idle"
    /\ get_data(API_ENDPOINTS["settings"])

\* await self.auth.login(self.session): the value returned is dropped.
fetch_login ==
    /\ UNCHANGED callerVars
    /\ pc = "login"
    /\ \E resp \in ServerPost :
         LET r == login(access_token, refresh_token, resp)
             c == Call("login", resp, r.posts, None, r.ret) IN
         /\ access_token' = r.access_token
         /\ refresh_token' = r.refresh_token
         /\ last' = c
         /\ log' = Append(log, c)
         /\ validAccess' = Issue(resp)
    /\ pc' = "get"
    /\ UNCHANGED <<heldAtStart, outcome, data, serverGood>>

\* The exception a GET without a 200 answer raises inside the try block:
\* asyncio.TimeoutError, aiohttp.ClientError, or the UpdateFailed raised
\* for a status other than 200.
raised(resp) ==
    IF resp.kind = "timeout" THEN "TimeoutError"
    ELSE IF resp.kind = "error" THEN "ClientError"
    ELSE "UpdateFailed"

except_handlers_reraise(exc) ==
    IF exc = "TimeoutError" THEN "PWNAPICommunicationError"
    ELSE IF exc = "UpdateFailed" THEN "UpdateFailed"
    ELSE "PWNAPIError"

\* The except clauses of fetch_data_from_api: asyncio.TimeoutError becomes
\* PWNAPICommunicationError, every other Exception PWNAPIError.
except_handlers(exc) ==
    IF exc = "TimeoutError" THEN "PWNAPICommunicationError"
    ELSE "PWNAPIError"

\* What the call does with the answer to its first GET.
first_get(resp) ==
    IF IsUnauthorized(resp)
    THEN [pc |-> "refresh", outcome |-> "pending", data |-> None]
    ELSE IF IsStatus(resp, 200)
    THEN [pc |-> "idle", outcome |-> "ok", data |-> resp.body]
    ELSE [pc |-> "idle", outcome |-> except_handlers(raised(resp)),
          data |-> None]

\* The first GET, sent with "Bearer <access_token>" (None included).
fetch_get ==
    /\ UNCHANGED callerVars
    /\ pc = "get"
    /\ \E resp \in ServerGet(access_token) :
         LET r == first_get(resp)
             c == Call("get", resp, 1, access_token, "None") IN
         /\ pc' = r.pc
         /\ outcome' = r.outcome
         /\ data' = r.data
         /\ last' = c
         /\ log' = Append(log, c)
    /\ UNCHANGED <<access_token, refresh_token, heldAtStart, serverGood,
                   validAccess>>

\* await self.auth.refresh_tokens(self.session) after a 401/403.
fetch_refresh ==
    /\ UNCHANGED callerVars
    /\ pc = "refresh"
    /\ \E resp \in ServerPost :
         LET r == refresh_tokens(access_token, refresh_token, resp)
             c == Call("refresh", resp, r.posts, None, r.ret) IN
         /\ access_token' = r.access_token
         /\ refresh_token' = r.refresh_token
         /\ last' = c
         /\ log' = Append(log, c)
         /\ validAccess' = IF r.posts = 1 THEN Issue(resp) ELSE validAccess
         /\ pc' = "retry"
    /\ UNCHANGED <<heldAtStart, outcome, data, serverGood>>

\* The timeout scope opened before the first GET expires while the refresh
\* POST is pending: the call is cancelled inside refresh_tokens and ends
\* with the timeout handler of fetch_data_from_api.
fetch_refresh_timeout ==
    /\ UNCHANGED callerVars
    /\ pc = "refresh"
    /\ refresh_token # None
    /\ ~serverGood
    /\ LET c == [NoCall EXCEPT !.op = "refresh", !.kind = "cancelled"] IN
         /\ last' = c
         /\ log' = Append(log, c)
    /\ pc' = "idle"
    /\ outcome' = except_handlers("TimeoutError")
    /\ UNCHANGED <<access_token, refresh_token, heldAtStart, data,
                   serverGood, validAccess>>

retry_get_again(resp) ==
    IF IsStatus(resp, 200)
    THEN [pc |-> "idle", outcome |-> "ok", data |-> resp.body]
    ELSE IF IsUnauthorized(resp)
    THEN [pc |-> "refresh", outcome |-> "pending", data |-> None]
    ELSE IF resp.kind = "timeout"
    THEN [pc |-> "idle", outcome |-> "PWNAPICommunicationError",
          data |-> None]
    ELSE [pc |-> "idle", outcome |-> "PWNAPIError", data |-> None]

retry_get_stale(resp) ==
    IF IsStatus(resp, 200)
    THEN [pc |-> "idle", outcome |-> "ok", data |-> None]
    ELSE IF resp.kind = "timeout"
    THEN [pc |-> "idle", outcome |-> "PWNAPICommunicationError",
          data |-> None]
    ELSE [pc |-> "idle", outcome |-> "PWNAPIError", data |-> None]

\* What the call does with the answer to the retry GET.
retry_get(resp) ==
    IF IsStatus(resp, 200)
    THEN [pc |-> "idle", outcome |-> "ok", data |-> resp.body]
    ELSE [pc |-> "idle", outcome |-> except_handlers(raised(resp)),
          data |-> None]

\* The retry GET, sent with the access token held after refresh_tokens.
fetch_retry ==
    /\ UNCHANGED callerVars
    /\ pc = "retry"
    /\ \E resp \in ServerGet(access_token) :
         LET r == retry_get(resp)
             c == Call("get", resp, 1, access_token, "None") IN
         /\ pc' = r.pc
         /\ outcome' = r.outcome
         /\ data' = r.data
         /\ last' = c
         /\ log' = Append(log, c)
    /\ UNCHANGED <<access_token, refresh_token, heldAtStart, serverGood,
                   validAccess>>

-----------------------------------------------------------------------------
(* Environment *)

\* From here on the server accepts the credentials and honours the access
\* tokens it holds valid.
server_recovers ==
    /\ UNCHANGED callerVars
    /\ ~serverGood
    /\ serverGood' = TRUE
    /\ validAccess' \in SUBSET Tokens
    /\ UNCHANGED <<access_token, refresh_token, pc, heldAtStart, log,
                   outcome, data, last>>

-----------------------------------------------------------------------------
Fetch ==
    \/ fetch_begin
    \/ fetch_login
    \/ fetch_get
    \/ fetch_refresh
    \/ fetch_refresh_timeout
    \/ fetch_retry

Next ==
    \/ auth_login
    \/ auth_refresh_tokens
    \/ auth_logout
    \/ Fetch
    \/ server_recovers

Spec == Init /\ [][Next]_vars

\* The coordinator polls on a timer and a started call runs to its end.
FairSpec == Spec /\ WF_vars(Fetch)

\* Fetches by endpoint name.
ByNameNext ==
    \/ async_get_data
    \/ async_get_settings
    \/ Fetch

ByNameSpec == Init /\ [][ByNameNext]_vars

-----------------------------------------------------------------------------
(* PWNDataUpdateCoordinator: one poll cycle *)

truthy_not_none(b) == b # None

\* Python truth value of a fetched document: None and {} are false.
truthy(b) == b # None /\ b # EmptyBody

\* user_data.get('relationNumber', None)
relationNumber(b) == IF b = RelationBody THEN 1 ELSE None

\* The order of the fetches of _fetch_all_data.
FetchOrder ==
    <<"invoices_summary", "relation_data", "consumption_history",
      "payment_info", "advance", "notifications">>

\* Documents an endpoint answers with.  Only relation data is looked up
\* for relationNumber; for the other endpoints a document with that key is
\* one more non-empty document.
DocumentsOf(name) ==
    IF name = "relation_data" THEN {EmptyBody, RelationBody, 3}
    ELSE {EmptyBody, 3}

GetResponsesOf(name) ==
    {g \in GetResponses : IsStatus(g, 200) => g.body \in DocumentsOf(name)}

\* A whole fetch_data_from_api call from the tokens (at, rt) against an
\* arbitrary server: the set of its possible ends, each with the tokens
\* held afterwards, the outcome, the value returned and the last request
\* of the call with its answer.
fetch_data_from_api(at, rt, name) ==
    LET End(a, o, d, c) == [access_token |-> a.access_token,
                            refresh_token |-> a.refresh_token,
                            outcome |-> o, data |-> d, last |-> c]
        Get(a, g) == Call("get", g, 1, a.access_token, "None")
        Held == [access_token |-> at, refresh_token |-> rt]
        AfterLogin == IF first_step(at) = "login"
                      THEN {login(at, rt, l) : l \in PostResponses}
                      ELSE {Held}
        Retry(a) ==
            {End(a, retry_get(g).outcome, retry_get(g).data, Get(a, g)) :
                g \in GetResponsesOf(name)}
        Refresh(a) ==
            (UNION {Retry(refresh_tokens(a.access_token, a.refresh_token, r)) :
                      r \in PostResponses})
            \cup (IF a.refresh_token # None
                  THEN {End(a, except_handlers("TimeoutError"), None,
                            [NoCall EXCEPT !.op = "refresh",
                                           !.kind = "cancelled"])}
                  ELSE {})
        FirstGet(a) ==
            UNION {IF first_get(g).pc = "refresh"
                   THEN Refresh(a)
                   ELSE {End(a, first_get(g).outcome, first_get(g).data,
                             Get(a, g))} :
                      g \in GetResponsesOf(name)}
    IN UNION {FirstGet(a) : a \in AfterLogin}

\* The except clauses of _async_update_data: PWNAPIAuthenticationError
\* becomes ConfigEntryAuthFailed; UpdateFailed, PWNAPIError and every other
\* Exception end as UpdateFailed.
update_except(exc) ==
    IF exc = "PWNAPIAuthenticationError" THEN "ConfigEntryAuthFailed"
    ELSE "UpdateFailed"

updated_data_always(d, old, now) == [d EXCEPT !.last_update = now]

\* "if data: data['last_update'] = now; self.async_set_updated_data(data)"
\* followed by "return self.data".
updated_data(d, old, now) ==
    IF d.kind = "dict" THEN [d EXCEPT !.last_update = now] ELSE old

\* A fetch of the catalog URL of name, and the contact-preferences fetch
\* of f"{API_ENDPOINTS['contact_preferences']}/{customer_id}" with the
\* customer id of the relation data.
catalog_request(name) == [name |-> name, key |-> None]

contact_preferences_request_unkeyed(user_data) ==
    [name |-> "contact_preferences", key |-> None]

contact_preferences_request(user_data) ==
    [name |-> "contact_preferences", key |-> relationNumber(user_data)]

\* _async_update_data is entered.
poll_begin ==
    /\ ~polling
    /\ pc = "idle"
    /\ clock < MaxPolls
    /\ polling' = TRUE
    /\ results' = <<>>
    /\ requests' = <<>>
    /\ pollOutcome' = "pending"
    /\ clock' = clock + 1
    /\ UNCHANGED <<access_token, refresh_token, pc, heldAtStart, log,
                   outcome, data, last, serverGood, validAccess, endpoint,
                   published, registryVars, sensorVars>>

\* One of the six fetches of _fetch_all_data: its document is kept, or its
\* exception ends the cycle in the handlers of _async_update_data.
poll_fetch ==
    /\ polling
    /\ Len(results) < Len(FetchOrder)
    /\ requests' =
         Append(requests, catalog_request(FetchOrder[Len(results) + 1]))
    /\ \E run \in fetch_data_from_api(access_token, refresh_token,
                                     FetchOrder[Len(results) + 1]) :
         /\ access_token' = run.access_token
         /\ refresh_token' = run.refresh_token
         /\ outcome' = run.outcome
         /\ data' = run.data
         /\ last' = run.last
         /\ IF run.outcome = "ok"
            THEN /\ results' = Append(results, run.data)
                 /\ UNCHANGED <<polling, pollOutcome>>
            ELSE /\ polling' = FALSE
                 /\ pollOutcome' = update_except(run.outcome)
                 /\ UNCHANGED results
    /\ UNCHANGED <<pc, heldAtStart, log, serverGood, validAccess,
                   endpoint, published, clock, registryVars, sensorVars>>

\* The rest of _fetch_all_data and of _async_update_data once the six
\* documents are there: {} for incomplete data, the contact-preferences
\* fetch when relation data holds a customer id, the data mapping (whose
\* contact_preferences is an unbound local without a customer id), and
\* the update of self.data.
poll_finish ==
    /\ polling
    /\ Len(results) = Len(FetchOrder)
    /\ polling' = FALSE
    /\ IF ~truthy(results[1]) \/ ~truthy(results[2]) \/ ~truthy(results[3])
       THEN /\ published' = updated_data(EmptyDict, published, clock)
            /\ pollOutcome' = "returned"
            /\ UNCHANGED <<access_token, refresh_token, outcome, data,
                           last, requests>>
       ELSE IF relationNumber(results[2]) = None
       THEN /\ pollOutcome' = update_except("UnboundLocalError")
            /\ UNCHANGED <<access_token, refresh_token, outcome, data,
                           last, requests, published>>
       ELSE \E run \in fetch_data_from_api(access_token, refresh_token,
                                          "contact_preferences") :
            /\ requests' =
                 Append(requests, contact_preferences_request(results[2]))
            /\ access_token' = run.access_token
            /\ refresh_token' = run.refresh_token
            /\ outcome' = run.outcome
            /\ data' = run.data
            /\ last' = run.last
            /\ IF run.outcome = "ok"
               THEN /\ published' =
                         updated_data(Mapping("dict", results, run.data, 0),
                                      published, clock)
                    /\ pollOutcome' = "returned"
               ELSE /\ pollOutcome' = update_except(run.outcome)
                    /\ UNCHANGED published
    /\ UNCHANGED <<pc, heldAtStart, log, serverGood, validAccess,
                   endpoint, results, clock, registryVars, sensorVars>>

PollNext ==
    \/ poll_begin
    \/ poll_fetch
    \/ poll_finish

PollSpec == Init /\ [][PollNext]_vars

-----------------------------------------------------------------------------
(* Config entries: async_setup_entry, async_unload_entry, async_reload_entry *)

clientVars == <<access_token, refresh_token, pc, heldAtStart, log, outcome,
                data, last, serverGood, validAccess, endpoint, pollVars>>

\* How coordinator.async_config_entry_first_refresh() ends for setup:
\* it returns, or raises aiohttp.ClientError or another Exception.
RefreshOutcomes == {"ok", "ClientError", "Exception"}

\* hass.data[DOMAIN], the platforms and the coordinators created, as one
\* value.
Registry ==
    [domainKey |-> domainKey, coordinators |-> coordinators,
     platforms |-> platforms, created |-> created]

\* async_setup_entry for entry e.  unique_id and credentials tell whether
\* the entry has them, refresh how the first refresh ends.  The
\* coordinator is stored in hass.data[DOMAIN] before the first refresh.
setup_entry(h, e, unique_id, credentials, refresh) ==
    IF ~unique_id THEN [h |-> h, ret |-> "False"]
    ELSE LET h1 == [h EXCEPT !.domainKey = TRUE] IN
    IF ~credentials THEN [h |-> h1, ret |-> "False"]
    ELSE LET h2 == [h1 EXCEPT !.created = @ + 1,
                              !.coordinators[e] = h.created + 1] IN
    IF refresh = "ClientError" THEN [h |-> h2, ret |-> "ConfigEntryNotReady"]
    ELSE IF refresh = "Exception" THEN [h |-> h2, ret |-> "False"]
    ELSE [h |-> [h2 EXCEPT !.platforms = @ \cup {e}], ret |-> "True"]

\* async_unload_entry for entry e, unloaded being the value of
\* async_unload_platforms: when it is true the entry is popped from
\* hass.data[DOMAIN] (a KeyError without that key) and the key DOMAIN is
\* popped once the mapping is empty.
unload_entry(h, e, unloaded) ==
    IF ~unloaded THEN [h |-> h, ret |-> "False"]
    ELSE LET h1 == [h EXCEPT !.platforms = @ \ {e}] IN
    IF ~h.domainKey THEN [h |-> h1, ret |-> "KeyError"]
    ELSE LET c == [h1.coordinators EXCEPT ![e] = None] IN
         [h |-> [h1 EXCEPT !.coordinators = c,
                           !.domainKey = \E x \in Entries : c[x] # None],
          ret |-> "True"]

\* async_reload_entry: "await async_unload_entry(...)" and then
\* "await async_setup_entry(...)"; only an exception of the unload keeps
\* the setup from running.
reload_entry(h, e, unloaded, unique_id, credentials, refresh) ==
    LET u == unload_entry(h, e, unloaded) IN
    IF u.ret = "KeyError" THEN u
    ELSE setup_entry(u.h, e, unique_id, credentials, refresh)

\* The registry after a call.
Registered(h) ==
    /\ domainKey' = h.domainKey
    /\ coordinators' = h.coordinators
    /\ platforms' = h.platforms
    /\ created' = h.created

async_setup_entry ==
    /\ created < MaxCoordinators
    /\ \E e \in Entries, unique_id \in BOOLEAN, credentials \in BOOLEAN,
          refresh \in RefreshOutcomes :
         LET r == setup_entry(Registry, e, unique_id, credentials, refresh)
         IN /\ Registered(r.h)
            /\ setupOk' = IF r.ret = "True" THEN setupOk \cup {e}
                          ELSE setupOk
            /\ hostCall' = HostCall("setup", e, FALSE, r.ret)
    /\ UNCHANGED <<clientVars, sensorVars>>

async_unload_entry ==
    /\ \E e \in Entries, unloaded \in BOOLEAN :
         LET r == unload_entry(Registry, e, unloaded)
         IN /\ Registered(r.h)
            /\ setupOk' = IF r.ret = "True" THEN setupOk \ {e} ELSE setupOk
            /\ hostCall' = HostCall("unload", e, unloaded, r.ret)
    /\ UNCHANGED <<clientVars, sensorVars>>

async_reload_entry ==
    /\ created < MaxCoordinators
    /\ \E e \in Entries, unloaded \in BOOLEAN, unique_id \in BOOLEAN,
          credentials \in BOOLEAN, refresh \in RefreshOutcomes :
         LET u == unload_entry(Registry, e, unloaded)
             r == reload_entry(Registry, e, unloaded, unique_id,
                               credentials, refresh)
             left == IF u.ret = "True" THEN setupOk \ {e} ELSE setupOk
         IN /\ Registered(r.h)
            /\ setupOk' = IF u.ret # "KeyError" /\ r.ret = "True"
                          THEN left \cup {e} ELSE left
            /\ hostCall' = HostCall("reload", e, unloaded, r.ret)
    /\ UNCHANGED <<clientVars, sensorVars>>

RegistryNext ==
    \/ async_setup_entry
    \/ async_unload_entry
    \/ async_reload_entry

RegistrySpec == Init /\ [][RegistryNext]_vars

-----------------------------------------------------------------------------
(* PWNSensor: the invoice helpers *)

Years  == 2024..(2023 + NumYears)
Months == 1..12

\* totalAmount values, multiples of three so that total_amount / 3 is
\* exact.
Amounts == {30, 75}

PaymentStatuses == {"Betaald", "Geplande incasso", "Uitbetaald", "Open"}
InvoiceTypes    == {"Termijnfactuur", "Drinkwaterfactuur", "Unknown"}

\* A summarized invoice with an invoiceDate in year y and month m.
Invoice(y, m, total, status, type) ==
    [year |-> y, month |-> m, totalAmount |-> total,
     paymentStatus |-> status, invoiceType |-> type]

\* Invoices of every month, for the helper that only reads date and
\* amount.
MonthInvoices ==
    {Invoice(y, m, a, "Betaald", "Termijnfactuur") :
        y \in Years, m \in Months, a \in Amounts}

\* Invoices of every payment status and type, for the helper that only
\* reads the year of the date.
BillInvoices ==
    {Invoice(yt[1], 1, a, st, yt[2]) :
        yt \in Years \X InvoiceTypes, a \in Amounts, st \in PaymentStatuses}

\* The summarizedInvoices of the contract accounts, in order.
ListsOf(S) == UNION {[1..n -> S] : n \in 0..MaxInvoices}

\* amount[str(year)][str(month)] += v on the defaultdict.
credit(amount, key, v) ==
    IF key \in DOMAIN amount THEN [amount EXCEPT ![key] = @ + v]
    ELSE amount @@ (key :> v)

month_bucket_same_year(invoice, month_offset) ==
    <<invoice.year, ((invoice.month + month_offset - 1) % 12) + 1>>

\* adjusted_year and month of one month_offset.
month_bucket(invoice, month_offset) ==
    <<invoice.year + ((invoice.month + month_offset - 1) \div 12),
      ((invoice.month + month_offset - 1) % 12) + 1>>

\* "for month_offset in range(3)" from month_offset on.
RECURSIVE distribute(_, _, _)
distribute(amount, invoice, month_offset) ==
    IF month_offset >= 3 THEN amount
    ELSE distribute(credit(amount, month_bucket(invoice, month_offset),
                           invoice.totalAmount \div 3),
                    invoice, month_offset + 1)

\* The loop over the invoices from the i-th on.
RECURSIVE distribute_all(_, _, _)
distribute_all(amount, invs, i) ==
    IF i > Len(invs) THEN amount
    ELSE distribute_all(distribute(amount, invs[i], 0), invs, i + 1)

\* The result as a mapping from <<year, month>> to the amount.
calculate_amount_per_month_per_year_as_dict(invs) ==
    distribute_all(<<>>, invs, 1)

calculate_invoice_amount(invoice) ==
    IF invoice.paymentStatus \in {"Betaald", "Geplande incasso"}
    THEN invoice.totalAmount
    ELSE IF invoice.paymentStatus = "Uitbetaald"
    THEN 0 - invoice.totalAmount
    ELSE 0

\* The local invoice_quarter of calculate_bills_per_year, which is bound
\* by the first Termijnfactuur only.
Unbound  == [bound |-> FALSE, value |-> 0]
Bound(v) == [bound |-> TRUE, value |-> v]

\* The entry the defaultdict yearly_data creates for a new year.
NewYear ==
    [totalAmount |-> 0, number_of_invoices |-> 0, invoice_quarter |-> 0,
     year_end_invoice |-> 0, invoiceType |-> "Jaarrekening"]

\* One pass of the invoice loop of calculate_bills_per_year; reading the
\* unbound invoice_quarter raises UnboundLocalError.
bills_step(acc, invoice) ==
    LET total_amount == calculate_invoice_amount(invoice)
        quarter == IF invoice.invoiceType = "Termijnfactuur"
                   THEN Bound(total_amount) ELSE acc.invoice_quarter
        year == invoice.year
        seen == year \in DOMAIN acc.yearly_data
        old == IF seen THEN acc.yearly_data[year] ELSE NewYear
        new == [totalAmount |-> old.totalAmount + total_amount,
                number_of_invoices |-> old.number_of_invoices + 1,
                invoice_quarter |-> quarter.value,
                year_end_invoice |->
                    IF invoice.invoiceType = "Drinkwaterfactuur"
                    THEN old.year_end_invoice + total_amount
                    ELSE old.year_end_invoice,
                invoiceType |-> invoice.invoiceType]
    IN IF ~quarter.bound THEN [acc EXCEPT !.raised = TRUE]
       ELSE [yearly_data |-> IF seen
                             THEN [acc.yearly_data EXCEPT ![year] = new]
                             ELSE acc.yearly_data @@ (year :> new),
             order |-> IF seen THEN acc.order ELSE Append(acc.order, year),
             invoice_quarter |-> quarter,
             raised |-> FALSE]

RECURSIVE bills_loop(_, _, _)
bills_loop(acc, invs, i) ==
    IF i > Len(invs) \/ acc.raised THEN acc
    ELSE bills_loop(bills_step(acc, invs[i]), invs, i + 1)

\* 'costs_per_year' of the result: one entry per year of yearly_data in
\* insertion order, or the empty list when the loop raised.
calculate_bills_per_year(invs) ==
    LET acc == bills_loop([yearly_data |-> <<>>, order |-> <<>>,
                           invoice_quarter |-> Unbound, raised |-> FALSE],
                          invs, 1)
    IN IF acc.raised THEN <<>>
       ELSE [i \in 1..Len(acc.order) |->
               LET d == acc.yearly_data[acc.order[i]] IN
               [Year |-> acc.order[i],
                Amount |-> d.totalAmount,
                Number_of_invoices |-> d.number_of_invoices,
                Invoice_quarter |-> d.invoice_quarter,
                Year_end_invoice |-> d.year_end_invoice,
                Invoice_type |-> d.invoiceType]]

\* PWNSensor.get_current_year_as_dict on the invoices.
get_current_year_as_dict ==
    /\ calculated = "none"
    /\ amount_per_month_per_year' =
         calculate_amount_per_month_per_year_as_dict(invoices)
    /\ calculated' = "months"
    /\ UNCHANGED <<clientVars, registryVars, invoices, bills_per_year>>

\* PWNSensor.calculate_bills_per_year on the invoices.
get_bills_per_year ==
    /\ calculated = "none"
    /\ bills_per_year' = calculate_bills_per_year(invoices)
    /\ calculated' = "bills"
    /\ UNCHANGED <<clientVars, registryVars, invoices,
                   amount_per_month_per_year>>

MonthsInit ==
    /\ ClientInit
    /\ RegistryInit
    /\ invoices \in ListsOf(MonthInvoices)
    /\ NotCalculated

MonthsSpec == MonthsInit /\ [][get_current_year_as_dict]_vars

BillsInit ==
    /\ ClientInit
    /\ RegistryInit
    /\ invoices \in ListsOf(BillInvoices)
    /\ NotCalculated

BillsSpec == BillsInit /\ [][get_bills_per_year]_vars

-----------------------------------------------------------------------------
(* Properties of one fetch_data_from_api call, read off its log *)

Gets      == {i \in DOMAIN log : log[i].op = "get"}
Refreshes == {i \in DOMAIN log : log[i].op = "refresh"}
Logins    == {i \in DOMAIN log : log[i].op = "login"}

\* 401 on the first GET, refresh_tokens, then the retry GET
Retried == /\ Len(log) >= 3
           /\ log[Len(log)].op = "get"
           /\ log[Len(log) - 1].op = "refresh"
           /\ log[Len(log) - 2].op = "get"

FirstGet == log[Len(log) - 2]
Refresh  == log[Len(log) - 1]
RetryGet == log[Len(log)]

\* C1: a fetch call issues at most two GETs and calls refresh at most once;
\* refresh is called only after a 401/403 on the first GET, and after the
\* retry GET, whatever its status, the call is over.
C1_AtMostOneRetry ==
    /\ Cardinality(Gets) <= 2
    /\ Cardinality(Refreshes) <= 1
    /\ \A i \in Refreshes : i > 1 /\ log[i - 1].op = "get"
                            /\ IsUnauthorized(log[i - 1])
    /\ Cardinality(Gets) = 2 => pc = "idle"

C1_Witness ==
    /\ Retried
    /\ IsUnauthorized(FirstGet)
    /\ IsUnauthorized(RetryGet)
    /\ pc = "idle"

\* C2: when a fetch starts without an access token and its login fails, the
\* fetch sends no GET and ends with an authentication error.
C2_FailedLoginStopsFetch ==
    (/\ ~heldAtStart
     /\ \E i \in Logins : log[i].ret = "False")
    => /\ Gets = {}
       /\ pc = "idle" => outcome = "PWNAPIAuthenticationError"

\* C3: a GET of a fetch that started without an access token is preceded,
\* in the same call, by a login attempt.
C3_LoginBeforeGet ==
    ~heldAtStart => \A i \in Gets : \E j \in Logins : j < i

C3_Witness ==
    /\ ~heldAtStart
    /\ Gets # {}
    /\ \E j \in Logins : log[j].ret = "False"

\* C4: a fetch whose first GET and whose retry GET both return 401/403 ends
\* with PWNAPIAuthenticationError and sends no third GET.
C4_SecondUnauthorizedIsAuthError ==
    (Retried /\ IsUnauthorized(FirstGet) /\ IsUnauthorized(RetryGet))
    => /\ pc = "idle"
       /\ outcome = "PWNAPIAuthenticationError"
       /\ Cardinality(Gets) = 2

\* C5: a fetch whose first GET returns 401 and whose retry GET returns 200
\* returns the body of the retry answer, having called refresh exactly once
\* and sent exactly two GETs.
C5_RetrySucceeds ==
    (Retried /\ IsStatus(FirstGet, 401) /\ IsStatus(RetryGet, 200))
    => /\ pc = "idle"
       /\ outcome = "ok"
       /\ data = RetryGet.body
       /\ Cardinality(Refreshes) = 1
       /\ Cardinality(Gets) = 2

C5_Witness ==
    /\ Retried
    /\ IsStatus(FirstGet, 401)
    /\ IsStatus(RetryGet, 200)
    /\ RetryGet.body = NumBodies
    /\ outcome = "ok"

\* C6: after a 401/403 on the first GET the retry GET is sent only if
\* refresh succeeded; when refresh fails (no refresh token, non-200 status,
\* timeout or transport error inside refresh_tokens) no retry GET is sent
\* and the fetch ends with an authentication error.
RefreshFailed(c) ==
    \/ c.kind \in {"nopost", "timeout", "error"}
    \/ c.kind = "status" /\ c.status # 200

C6_RetryOnlyAfterSuccessfulRefresh ==
    /\ Retried => IsStatus(Refresh, 200)
    /\ \A i \in Refreshes :
         RefreshFailed(log[i])
         => /\ \A j \in Gets : j < i
            /\ pc = "idle"
            /\ outcome = "PWNAPIAuthenticationError"

\* C7: when the server rejects with 401/403 a refresh made while an access
\* token is held, the caller is told that re-authentication is required and
\* is_authenticated() is false afterwards, so that the next fetch logs in.
C7_RejectedRefreshUnauthenticates ==
    [][(/\ last'.op = "refresh"
        /\ IsUnauthorized(last')
        /\ is_authenticated(access_token))
       => /\ last'.ret = "reauth"
          /\ ~is_authenticated(access_token')]_vars

\* C8: once the server has recovered, a running fetch is followed by a
\* fetch that succeeds: no state is terminal.
C8_EventuallyFetchSucceeds ==
    (serverGood /\ outcome = "pending") ~> (outcome = "ok")

\* C9: access_token and refresh_token are both held or both absent.
C9_TokenPairWhole ==
    (access_token = None) <=> (refresh_token = None)

\* C10: a login or refresh call that gets no 200 answer leaves both tokens
\* as they were.
C10_FailedCallKeepsTokens ==
    [][(/\ last'.op \in {"login", "refresh"}
        /\ ~IsStatus(last', 200))
       => /\ access_token' = access_token
          /\ refresh_token' = refresh_token]_vars

C10_Witness ==
    /\ last.op = "login"
    /\ IsUnauthorized(last)
    /\ access_token # None
    /\ refresh_token # None

\* C11: right after login(), is_authenticated() is true exactly when the
\* login endpoint answered 200 with both accessToken and refreshToken (the
\* fields of a 200 body are the tokens held after the call).
C11_AuthenticatedIffLoginOk ==
    last.op = "login"
    => (is_authenticated(access_token)
        <=> (IsStatus(last, 200) /\ access_token # None
             /\ refresh_token # None))

\* C12: a GET answered with a status other than 200, 401 and 403 ends the
\* fetch with PWNAPICommunicationError.
C12_OtherStatusIsCommunicationError ==
    \A i \in Gets :
        (log[i].kind = "status" /\ log[i].status \notin {200, 401, 403})
        => (pc = "idle" /\ outcome = "PWNAPICommunicationError")

\* C13: a fetch during which a network call (login POST, refresh POST,
\* first GET, retry GET) timed out ends in the timeout condition.
C13_TimeoutIsTimeoutCondition ==
    (pc = "idle" /\ \E i \in DOMAIN log :
                        log[i].kind \in {"timeout", "cancelled"})
    => outcome = "PWNAPICommunicationError"

\* PWNAPIError and its subclasses (api.py:15-24)
PWNAPIErrors ==
    {"PWNAPIError", "PWNAPICommunicationError", "PWNAPIAuthenticationError"}

\* C14: a fetch that fails, fails with PWNAPIError or one of its
\* subclasses, whatever exception was raised inside it.
C14_OnlyPWNAPIErrors ==
    outcome \notin {"none", "pending", "ok", "None"}
    => outcome \in PWNAPIErrors

C14_Witness ==
    /\ pc = "idle"
    /\ last.op = "get"
    /\ IsStatus(last, 500)
    /\ raised(last) = "UpdateFailed"
    /\ outcome = "PWNAPIError"

\* C15: async_get_data with a name that is not in the catalog fails with the
\* unknown-endpoint condition, makes no network call and leaves both
\* tokens as they were.
C15_UnknownEndpointFails ==
    [][endpoint' \in UnknownNames
       => /\ outcome' = "UnknownEndpointError"
          /\ log' = <<>>
          /\ last' = last
          /\ access_token' = access_token
          /\ refresh_token' = refresh_token]_vars

FirstGetIdx == CHOOSE i \in Gets : \A j \in Gets : i <= j

\* C16: a fetch that starts authenticated and whose GET is answered 200
\* returns the body of that answer after exactly one GET, no login and
\* no refresh, and is_authenticated() is still true when it returns.
C16_AuthenticatedFetchReturnsBody ==
    (heldAtStart /\ Gets # {} /\ IsStatus(log[FirstGetIdx], 200))
    => /\ pc = "idle"
       /\ outcome = "ok"
       /\ data = log[FirstGetIdx].body
       /\ Len(log) = 1
       /\ last.op = "get" => is_authenticated(access_token)

C16_Witness ==
    /\ heldAtStart
    /\ Len(log) = 1
    /\ IsStatus(log[1], 200)
    /\ last = log[1]
    /\ data = NumBodies
    /\ is_authenticated(access_token)

\* What a refresh that replaced the tokens returns to its caller.
RefreshOkRet ==
    refresh_tokens(1, 1, [kind |-> "status", status |-> 200,
                          accessToken |-> 1, refreshToken |-> 1]).ret

\* C17: refresh without a stored refresh token sends no POST, changes
\* neither token and returns a result that differs from the result of a
\* successful refresh.
C17_RefreshWithoutTokenFails ==
    [][(last'.op = "refresh" /\ last'.kind = "nopost")
       => /\ access_token' = access_token
          /\ refresh_token' = refresh_token
          /\ last'.ret # RefreshOkRet]_vars

\* C18: every login and refresh call returns an explicit success or failure
\* result to its caller.
C18_ExplicitResult ==
    (last.op \in {"login", "refresh"} /\ last.kind # "cancelled")
    => last.ret \in {"True", "False"}

\* C19: logout sends nothing and clears both tokens, so is_authenticated()
\* is false after it and the next fetch starts with login.
C19_LogoutClears ==
    [][/\ last'.op = "logout"
          => /\ last'.kind = "nopost"
             /\ access_token' = None
             /\ refresh_token' = None
             /\ ~is_authenticated(access_token')
       /\ (last.op = "logout" /\ pc = "idle" /\ pc' # "idle")
          => pc' = "login"]_vars

C19_Witness ==
    /\ last.op = "logout"
    /\ pc = "login"

\* C20: self.data is replaced only by the full set of documents of a cycle
\* all of whose fetches succeeded; a cycle one of whose fetches fails
\* reports the failure and leaves self.data as it was.
C20_NoPartialCommit ==
    [][/\ published' # published
          => /\ polling /\ ~polling'
             /\ pollOutcome' = "returned"
             /\ Len(results) = Len(FetchOrder)
             /\ outcome' = "ok"
             /\ published' = Mapping("dict", results, data', clock)
             /\ \A i \in 1..Len(FetchOrder) : results[i] # None
       /\ (polling /\ outcome' # "ok")
          => /\ ~polling'
             /\ pollOutcome' \in {"UpdateFailed", "ConfigEntryAuthFailed"}
             /\ published' = published]_vars

\* A second cycle failed after the first one had published.
C20_Witness ==
    /\ published.kind = "dict"
    /\ published.last_update < clock
    /\ ~polling
    /\ pollOutcome = "UpdateFailed"
    /\ outcome = "PWNAPICommunicationError"
    /\ Len(results) = 3

-----------------------------------------------------------------------------
(* Claims about the order of the requests and the end of a poll cycle *)

\* The poll cycle has come to the end of _fetch_all_data's six fetches.
SixFetched == Len(results) = Len(FetchOrder)

\* The three documents without which _fetch_all_data returns {}.
CoreFilled(r) ==
    \A i \in 1..3 : r[i] # None /\ r[i] # EmptyBody

\* C21: within one poll cycle the fetches are issued one after another in
\* the order invoices_summary, relation_data, consumption_history,
\* payment_info, advance, notifications: a fetch is issued only when the
\* documents of all earlier ones are in, and no request is outstanding
\* between two steps of the cycle.  The contact-preferences request is
\* issued only after the six documents are in and it is keyed by the
\* customer id that the relation data returned.
C21_SequentialFetches ==
    /\ Len(requests) <= Len(FetchOrder) + 1
    /\ Len(requests) <= Len(results) + 1
    /\ polling => Len(requests) = Len(results)
    /\ \A i \in DOMAIN requests :
         i <= Len(FetchOrder) => requests[i] = [name |-> FetchOrder[i],
                                               key |-> None]
    /\ Len(requests) = Len(FetchOrder) + 1 =>
         /\ SixFetched
         /\ requests[Len(requests)].name = "contact_preferences"
         /\ requests[Len(requests)].key # None
         /\ requests[Len(requests)].key = relationNumber(results[2])

\* A cycle that fetched all seven documents and returned.
C21_Witness ==
    /\ ~polling
    /\ pollOutcome = "returned"
    /\ Len(requests) = Len(FetchOrder) + 1
    /\ requests[Len(requests)].key = 1
    /\ published.kind = "dict"

\* C22: a poll cycle that fails because the server went on answering
\* 401/403 (rejected credentials, or a retry after the refresh that is
\* still unauthorized) ends with ConfigEntryAuthFailed and not with
\* UpdateFailed.
C22_AuthFailureReported ==
    (/\ ~polling
     /\ pollOutcome \in {"UpdateFailed", "ConfigEntryAuthFailed"}
     /\ Len(requests) > Len(results)
     /\ last.op = "get"
     /\ last.status \in {401, 403})
    => pollOutcome = "ConfigEntryAuthFailed"

\* C23: when the relation data holds no relationNumber the cycle issues no
\* contact-preferences request and still returns the merged mapping,
\* without reporting a failure.
C23_NoCustomerIdProceeds ==
    (/\ ~polling
     /\ SixFetched
     /\ CoreFilled(results)
     /\ relationNumber(results[2]) = None)
    => /\ Len(requests) = Len(FetchOrder)
       /\ pollOutcome = "returned"
       /\ published.kind = "dict"
       /\ published.user_data = results[2]
       /\ published.last_update = clock

\* C24: every GET a fetch sends carries an access token; none is sent as
\* "Bearer None" while no access token is held.
C24_NoGetWithoutToken ==
    \A i \in Gets : log[i].tok # None

\* C25: data the coordinator publishes holds all of invoices, user_data,
\* consumption_history, contact_preferences, payment_info, advance,
\* notifications and last_update, the first three of them non-empty; a
\* cycle one of whose first three documents is empty issues no
\* contact-preferences request, publishes nothing, leaves last_update as
\* it is and returns the data published before.
C25_PublishedComplete ==
    [][/\ published' # published =>
            /\ published'.kind = "dict"
            /\ published'.invoices # None
            /\ published'.invoices # EmptyBody
            /\ published'.user_data # None
            /\ published'.user_data # EmptyBody
            /\ published'.consumption_history # None
            /\ published'.consumption_history # EmptyBody
            /\ published'.contact_preferences # None
            /\ published'.payment_info # None
            /\ published'.advance # None
            /\ published'.notifications # None
            /\ published'.last_update = clock
            /\ clock >= 1
       /\ (polling /\ ~polling' /\ SixFetched /\ ~CoreFilled(results)) =>
            /\ requests' = requests
            /\ published' = published
            /\ pollOutcome' = "returned"]_vars

\* A second cycle met an empty consumption history after the first one
\* had published: the data of the first cycle stays.
C25_Witness ==
    /\ ~polling
    /\ SixFetched
    /\ results[1] = 3
    /\ results[2] = RelationBody
    /\ results[3] = EmptyBody
    /\ Len(requests) = Len(FetchOrder)
    /\ pollOutcome = "returned"
    /\ published.kind = "dict"
    /\ published.last_update < clock

-----------------------------------------------------------------------------
(* Claims about the accessors by name *)

\* C26: async_get_settings starts an authenticated GET of the settings
\* URL and returns what that fetch returns, exactly as async_get_data
\* does for the name "settings": the call enters fetch_data_from_api and
\* does not end with None before any request.
C26_GetSettingsFetches ==
    [][(pc = "idle" /\ endpoint' = API_ENDPOINTS["settings"])
       => /\ outcome' = "pending"
          /\ pc' = first_step(access_token)]_vars

-----------------------------------------------------------------------------
(* Claims about the config entries *)

\* C27: hass.data[DOMAIN] holds a coordinator for an entry only if the
\* setup of that entry returned True and the entry has not been unloaded
\* since; a setup that returned False or raised leaves no coordinator
\* registered.
C27_OnlyLoadedEntriesRegistered ==
    \A e \in Entries : coordinators[e] # None => e \in setupOk

\* C30: async_reload_entry sets the entry up again only after it was
\* unloaded: when async_unload_platforms reports that the platforms could
\* not be unloaded, no setup runs and the coordinator registered for the
\* entry, whose entities are still loaded, is not replaced.
C30_ReloadOnlyAfterUnload ==
    [][(/\ hostCall'.op = "reload"
        /\ ~hostCall'.unloaded
        /\ coordinators[hostCall'.entry] # None
        /\ hostCall'.entry \in platforms)
       => /\ coordinators' = coordinators
          /\ created' = created]_vars

-----------------------------------------------------------------------------
(* Claims about the invoice helpers *)

\* The calendar month after <<year, month>>.
NextMonth(ym) == IF ym[2] = 12 THEN <<ym[1] + 1, 1>> ELSE <<ym[1], ym[2] + 1>>

\* The three calendar months an invoice covers, from its own month on.
Covered(invoice) ==
    LET first == <<invoice.year, invoice.month>> IN
    <<first, NextMonth(first), NextMonth(NextMonth(first))>>

\* The sum of the function f over the finite set S.
RECURSIVE SumOver(_, _)
SumOver(S, f) ==
    IF S = {} THEN 0
    ELSE LET x == CHOOSE y \in S : TRUE IN f[x] + SumOver(S \ {x}, f)

\* C28: every invoice of month m credits one third of its amount to each
\* of the three consecutive calendar months from m on, rolling over into
\* January and February of the next year for November and December; the
\* result holds, for exactly the months some invoice covers, the sum of
\* those thirds.
C28_ThreeConsecutiveMonths ==
    calculated = "months" =>
      LET hits == {ik \in (DOMAIN invoices) \X (1..3) : TRUE}
          keyOf(ik) == Covered(invoices[ik[1]])[ik[2]]
          total == [ik \in hits |-> invoices[ik[1]].totalAmount]
      IN /\ DOMAIN amount_per_month_per_year = {keyOf(ik) : ik \in hits}
         /\ \A key \in DOMAIN amount_per_month_per_year :
              3 * amount_per_month_per_year[key] =
                SumOver({ik \in hits : keyOf(ik) = key}, total)
         /\ \A i \in DOMAIN invoices :
              Cardinality({Covered(invoices[i])[k] : k \in 1..3}) = 3

\* A November and a December invoice of the same year: January of the
\* next year is credited by both, February by the second.
C28_Witness ==
    /\ calculated = "months"
    /\ Len(invoices) = 2
    /\ invoices[1].month = 11
    /\ invoices[2].month = 12
    /\ invoices[1].year = invoices[2].year
    /\ <<invoices[1].year + 1, 1>> \in DOMAIN amount_per_month_per_year
    /\ amount_per_month_per_year[<<invoices[1].year + 1, 1>>] =
         (invoices[1].totalAmount \div 3) + (invoices[2].totalAmount \div 3)
    /\ <<invoices[1].year + 1, 2>> \in DOMAIN amount_per_month_per_year

\* The signed amount of an invoice: +totalAmount for Betaald and Geplande
\* incasso, -totalAmount for Uitbetaald, 0 otherwise.
Signed(invoice) ==
    IF invoice.paymentStatus \in {"Betaald", "Geplande incasso"}
    THEN invoice.totalAmount
    ELSE IF invoice.paymentStatus = "Uitbetaald"
    THEN 0 - invoice.totalAmount
    ELSE 0

\* C29: for every list of dated invoices, whatever their order and types,
\* calculate_bills_per_year returns exactly one entry per calendar year
\* with an invoice, whose 'Number of invoices' is the number of invoices
\* of that year and whose 'Amount' is the sum of their signed amounts.
C29_OneEntryPerYear ==
    calculated = "bills" =>
      LET of(year) == {i \in DOMAIN invoices : invoices[i].year = year}
          signed == [i \in DOMAIN invoices |-> Signed(invoices[i])]
      IN /\ {bills_per_year[n].Year : n \in DOMAIN bills_per_year} =
              {invoices[i].year : i \in DOMAIN invoices}
         /\ Len(bills_per_year) =
              Cardinality({invoices[i].year : i \in DOMAIN invoices})
         /\ \A n \in DOMAIN bills_per_year :
              /\ bills_per_year[n].Number_of_invoices =
                   Cardinality(of(bills_per_year[n].Year))
              /\ bills_per_year[n].Amount =
                   SumOver(of(bills_per_year[n].Year), signed)

====
